---- MODULE Spec2Model ----
(***************************************************************************)
(* A model of the cui_gaming rendering engine: the unit segmenter          *)
(* (drawable_unit.rs), the layered canvas (canvas.rs), the world-to-canvas *)
(* projection (world_canvas.rs), the UI adapter (ui_canvas.rs) and the     *)
(* message log (message_buffer.rs).                                        *)
(*                                                                         *)
(* Several state machines share the module.  Each one owns a group of      *)
(* variables and leaves the other groups at their idle values:             *)
(*   Spec               the canvas and the two adapters that draw on it    *)
(*   SpecSegmenter      DrawableUnit::create_units_from as a function      *)
(*   SpecProjector      Reference::canvas_position_of as a function        *)
(*   SpecMessageBuffer  MessageBuffer under add_text / add_newline         *)
(*   SpecMessageLine    one MessageLine under append_message               *)
(*   SpecWriteTo        Canvas::write_to at the end of a frame             *)
(*   SpecDrawMessage    MessageBuffer::draw_message on a canvas            *)
(***************************************************************************)
EXTENDS Integers, Sequences, FiniteSets, TLC

(***************************************************************************)
(* Bounds of the model.                                                    *)
(***************************************************************************)
\* Longest text handed to the segmenter.
MaxTextLen == 4
\* Width in bits of the machine word that stands for usize / isize.
WordBits == 8
\* Layers are the integers 0..MaxLayer.
MaxLayer == 1
\* Most Canvas::draw_unit calls between two clear() calls.
MaxDraws == 3
\* Largest max_line_count / max_message_length given to MessageBuffer::new.
MaxLineCount == 2
MaxMessageLength == 2
\* Most lines created over the life of one MessageBuffer.
MaxCreated == 3
\* Most cells given to one MessageLine over its life.
MaxAppended == 5
\* draw_message calls on one canvas.
MaxMessageDraws == 2

VARIABLES
    \* ---- segmenter (drawable_unit.rs)
    s,                  \* the text given to create_units_from
    color,              \* the colour given to create_units_from
    units,              \* Option<Vec<DrawableUnit>>: the returned cells
    \* ---- projector (world_canvas.rs)
    reference,          \* the Reference under test
    world_position,     \* the world position under test
    projected,          \* Option<outcome of canvas_position_of>
    \* ---- the build
    overflow_checks,    \* TRUE: debug profile (overflow checks, debug_assert)
    \* ---- canvas (canvas.rs, ui_canvas.rs, world_canvas.rs)
    lattices,           \* Canvas.lattices: the populated slots by position
    panicked,           \* the program was terminated by a panic
    drawn,              \* history: Canvas::draw_unit calls since the last clear
    last_call,          \* history: the last operation on the grid and its arguments
    \* ---- message log (message_buffer.rs)
    lines,              \* MessageBuffer.lines
    max_line_count,     \* MessageBuffer.max_line_count
    max_message_length, \* MessageBuffer.max_message_length
    buffer_panicked,    \* an operation of the buffer panicked
    line_ids,           \* history: creation number of each line in lines
    created,            \* history: number of lines created so far
    last_op,            \* history: the last buffer operation and the state before
    \* ---- one MessageLine (message_buffer.rs)
    message_line,       \* the MessageLine under test
    all_appended,       \* history: every cell given to append_message, in order
    line_panicked,      \* an operation of the line panicked
    \* ---- Canvas::write_to (canvas.rs, drawable_unit.rs)
    destination,        \* the DrawDestination after write_to
    write_result,       \* Option<Result<(), DrawError>>: what write_to returned
    write_given,        \* history: the destination as given to write_to
    \* ---- MessageBuffer::draw_message (message_buffer.rs)
    border_unit,        \* MessageBuffer.border_unit
    width_counts_cells, \* how geometry::Rectangle::width measures (see below)
    message_call        \* history: the last draw_message call and what it drew

segmenter_vars == <<s, color, units>>
projector_vars == <<reference, world_position, projected>>
canvas_vars    == <<lattices, panicked, drawn, last_call>>
buffer_vars    == <<lines, max_line_count, max_message_length, buffer_panicked,
                    line_ids, created, last_op>>
line_vars      == <<message_line, all_appended, line_panicked>>
writer_vars    == <<destination, write_result, write_given>>
pager_vars     == <<border_unit, width_counts_cells, message_call>>
vars == <<segmenter_vars, projector_vars, overflow_checks, canvas_vars, buffer_vars,
          line_vars, writer_vars, pager_vars>>

(***************************************************************************)
(* Option<T> and Pair<T>.                                                  *)
(***************************************************************************)
None == [some |-> FALSE]
Some(v) == [some |-> TRUE, value |-> v]
IsSome(o) == o.some
Pair(px, py) == [x |-> px, y |-> py]

(***************************************************************************)
(* drawable_unit.rs                                                        *)
(***************************************************************************)
\* Characters are named by strings.  HalfChars have console width 1 (the
\* space among them), FullChars have console width 2.
HalfChars == {"a", "b", " "}
FullChars == {"A"}
Chars == HalfChars \cup FullChars
Colors == {"White", "Red"}

\* unicode_width::UnicodeWidthChar::width on the characters of the model.
Width(c) == IF c \in HalfChars THEN 1 ELSE 2

from_single_full_char(c, col) == [left |-> c, right |-> None, color |-> col]

from_double_half_char(l, r, col) == [left |-> l, right |-> Some(r), color |-> col]

\* A variant of CreateUnitsStep with a slip: a full-width character does not
\* flush the pending half-width character, which stays pending.
CreateUnitsStepNoFlush(st, c, col) ==
    IF Width(c) = 1
    THEN IF IsSome(st.previous)
         THEN [units |-> Append(st.units,
                                from_double_half_char(st.previous.value, c, col)),
               previous |-> None]
         ELSE [units |-> st.units, previous |-> Some(c)]
    ELSE [units |-> Append(st.units, from_single_full_char(c, col)),
          previous |-> st.previous]

\* One iteration of the for loop of create_units_from: st is the pair
\* (units, previous) before character c, the result the pair after it.
CreateUnitsStep(st, c, col) ==
    IF Width(c) = 1
    THEN IF IsSome(st.previous)
         THEN [units |-> Append(st.units,
                                from_double_half_char(st.previous.value, c, col)),
               previous |-> None]
         ELSE [units |-> st.units, previous |-> Some(c)]
    ELSE IF Width(c) = 2
    THEN IF IsSome(st.previous)
         THEN [units |-> st.units
                         \o <<from_double_half_char(st.previous.value, " ", col),
                              from_single_full_char(c, col)>>,
               previous |-> None]
         ELSE [units |-> Append(st.units, from_single_full_char(c, col)),
               previous |-> st.previous]
    ELSE st

\* The loop over s.chars(), left to right, from units = [] and previous = None.
RECURSIVE CreateUnitsLoop(_, _, _)
CreateUnitsLoop(text, n, col) ==
    IF n = 0
    THEN [units |-> <<>>, previous |-> None]
    ELSE CreateUnitsStep(CreateUnitsLoop(text, n - 1, col), text[n], col)

\* A variant of CreateUnitsFlush with a slip: the pending half-width
\* character is dropped.
CreateUnitsFlushDropped(st, col) == st.units

\* The flush after the loop: a half-width character still pending is padded.
CreateUnitsFlush(st, col) ==
    IF IsSome(st.previous)
    THEN Append(st.units, from_double_half_char(st.previous.value, " ", col))
    ELSE st.units

create_units_from(text, col) ==
    CreateUnitsFlush(CreateUnitsLoop(text, Len(text), col), col)

\* The texts of the model: every string over Chars of length <= MaxTextLen.
Texts == UNION {[1..n -> Chars] : n \in 0..MaxTextLen}

InitSegmenterVars == s = <<>> /\ color = "White" /\ units = None

\* let units = DrawableUnit::create_units_from(s, color);
CreateUnits ==
    /\ ~IsSome(units)
    /\ units' = Some(create_units_from(s, color))
    /\ UNCHANGED <<s, color>>
    /\ UNCHANGED <<overflow_checks, projector_vars, canvas_vars, buffer_vars,
                   line_vars, writer_vars, pager_vars>>

(***************************************************************************)
(* Machine integers.  usize and isize are WordBits wide.                   *)
(***************************************************************************)
ISIZE_MIN == -(2 ^ (WordBits - 1))
ISIZE_MAX == 2 ^ (WordBits - 1) - 1
USIZE_MAX == 2 ^ WordBits - 1

\* The outcome of a call: it returned a value, or it panicked.
Returned(v) == [panic |-> FALSE, value |-> v]
Panic == [panic |-> TRUE]

\* The two's complement value of v in isize.
WrapIsize(v) == ((v - ISIZE_MIN) % (2 ^ WordBits)) + ISIZE_MIN

\* isize `+` and `-` on the exact result v: with overflow checks an
\* out-of-range result panics, without them it wraps.
IsizeArith(v, checks) ==
    IF ISIZE_MIN <= v /\ v <= ISIZE_MAX
    THEN Returned(v)
    ELSE IF checks THEN Panic ELSE Returned(WrapIsize(v))

\* Pair<usize>::try_cast::<isize>().ok()
try_cast_isize(p) ==
    IF p.x <= ISIZE_MAX /\ p.y <= ISIZE_MAX THEN Some(p) ELSE None

\* Pair<isize>::try_cast::<usize>().ok()
try_cast_usize(p) ==
    IF p.x >= 0 /\ p.y >= 0 THEN Some(p) ELSE None

(***************************************************************************)
(* canvas.rs: size and bounds                                              *)
(***************************************************************************)
CANVAS_WIDTH == 40 - 2
CANVAS_HEIGHT == 30

size == Pair(CANVAS_WIDTH, CANVAS_HEIGHT)

\* A variant of is_drawable_at with a slip: `|` for `&`.
is_drawable_at_either(position) ==
    (position.x < size.x) \/ (position.y < size.y)

is_drawable_at(position) == (position.x < size.x) /\ (position.y < size.y)

(***************************************************************************)
(* world_canvas.rs: Reference                                              *)
(***************************************************************************)
Reference_new(canvas_position, world_pos) ==
    [reference_canvas_position |-> canvas_position,
     reference_world_position |-> world_pos]

\* The tail of canvas_position_of, from the offset on: the anchor is cast
\* into isize, added, the sum cast back into usize and checked against the
\* canvas.
PositionFromOffset(ref, offset, checks) ==
    LET anchor == try_cast_isize(ref.reference_canvas_position)
    IN  IF ~IsSome(anchor)
        THEN Returned(None)
        ELSE LET sx == IsizeArith(offset.x + anchor.value.x, checks)
                 sy == IsizeArith(offset.y + anchor.value.y, checks)
             IN  IF sx.panic \/ sy.panic
                 THEN Panic
                 ELSE LET canvas_position ==
                              try_cast_usize(Pair(sx.value, sy.value))
                      IN  IF ~IsSome(canvas_position)
                          THEN Returned(None)
                          ELSE IF is_drawable_at(canvas_position.value)
                               THEN Returned(Some(canvas_position.value))
                               ELSE Returned(None)

canvas_position_of(ref, world_pos, checks) ==
    LET ox == IsizeArith(world_pos.x - ref.reference_world_position.x, checks)
        oy == IsizeArith(world_pos.y - ref.reference_world_position.y, checks)
    IN  IF ox.panic \/ oy.panic
        THEN Panic
        ELSE PositionFromOffset(ref, Pair(ox.value, oy.value), checks)

\* Components of the anchor canvas positions tried (usize).
CanvasSamples ==
    {0, CANVAS_HEIGHT - 1, CANVAS_WIDTH - 1, CANVAS_WIDTH + 2,
     ISIZE_MAX, USIZE_MAX}
\* Components of the anchor world positions and of the world positions
\* tried (isize).
AnchorWorldSamples == {ISIZE_MIN, -1, 0, 5}
WorldSamples == {ISIZE_MIN, -(CANVAS_WIDTH + 1), -1, 0, 6, ISIZE_MAX}

InitProjectorVars ==
    /\ reference = Reference_new(Pair(0, 0), Pair(0, 0))
    /\ world_position = Pair(0, 0)
    /\ projected = None

\* let projected = reference.canvas_position_of(world_position, &canvas);
Project ==
    /\ ~IsSome(projected)
    /\ projected' = Some(canvas_position_of(reference, world_position,
                                            overflow_checks))
    /\ UNCHANGED <<reference, world_position>>
    /\ UNCHANGED <<overflow_checks, segmenter_vars, canvas_vars, buffer_vars,
                   line_vars, writer_vars, pager_vars>>

(***************************************************************************)
(* canvas.rs: Canvas                                                       *)
(***************************************************************************)
Rows == 0..(CANVAS_HEIGHT - 1)
Columns == 0..(CANVAS_WIDTH - 1)

CanvasUnit(drawable_unit, layer) ==
    [drawable_unit |-> drawable_unit, layer |-> layer]

\* The grid [[Option<CanvasUnit>; CANVAS_WIDTH]; CANVAS_HEIGHT] is held as
\* the function from the positions of its populated slots to their
\* CanvasUnit: a position of the grid outside the domain is a slot that
\* holds None.
\* Canvas::empty_canvas(): [[None; CANVAS_WIDTH]; CANVAS_HEIGHT]
empty_canvas == [position \in {} |-> CanvasUnit(None, 0)]

\* self.lattices[position.y][position.x]
Lattice(lat, position) ==
    IF position \in DOMAIN lat THEN Some(lat[position]) ELSE None

\* *lattice = Some(unit) on the slot at position
SetLattice(lat, position, unit) ==
    [q \in (DOMAIN lat) \cup {position} |->
        IF q = position THEN unit ELSE lat[q]]

\* A variant of Overwrites with a slip: `>` for `>=`, an equal layer does
\* not overwrite.
OverwritesStrictly(lattice, layer) ==
    IF IsSome(lattice) /\ layer > lattice.value.layer
    THEN TRUE
    ELSE IF ~IsSome(lattice) THEN TRUE ELSE FALSE

\* A variant of Overwrites with a slip: the layer is not compared.
OverwritesAlways(lattice, layer) == TRUE

\* The match of draw_unit on one slot: whether the slot is overwritten.
Overwrites(lattice, layer) ==
    IF IsSome(lattice) /\ layer >= lattice.value.layer
    THEN TRUE
    ELSE IF ~IsSome(lattice) THEN TRUE ELSE FALSE

\* A variant of draw_unit with a slip: an occupied slot that is overwritten
\* is emptied (None for Some(new unit)).
draw_unit_emptying(lat, drawable_unit, position, layer) ==
    IF ~(position.x < CANVAS_WIDTH /\ position.y < CANVAS_HEIGHT)
    THEN Panic
    ELSE IF IsSome(Lattice(lat, position))
            /\ layer >= Lattice(lat, position).value.layer
    THEN Returned([q \in (DOMAIN lat) \ {position} |-> lat[q]])
    ELSE IF ~IsSome(Lattice(lat, position))
    THEN Returned(SetLattice(lat, position, CanvasUnit(drawable_unit, layer)))
    ELSE Returned(lat)

\* Canvas::draw_unit on the grid `lat`: the grid after the call, or a panic
\* when the position is outside the grid (the debug_assert of a debug build,
\* the index check of the array in a release build).
draw_unit(lat, drawable_unit, position, layer) ==
    IF ~(position.x < CANVAS_WIDTH /\ position.y < CANVAS_HEIGHT)
    THEN Panic
    ELSE IF Overwrites(Lattice(lat, position), layer)
    THEN Returned(SetLattice(lat, position, CanvasUnit(drawable_unit, layer)))
    ELSE Returned(lat)

\* A variant of clear with a slip: the last row is left as it is.
clear_but_last_row(lat) ==
    [position \in {q \in DOMAIN lat : q.y = CANVAS_HEIGHT - 1} |-> lat[position]]

\* Canvas::clear(): every slot of every row becomes None.
clear(lat) == [position \in {} |-> CanvasUnit(None, 0)]

(***************************************************************************)
(* The canvas machine: one Canvas, drawn on directly, through a UiCanvas   *)
(* and through a WorldCanvas, and cleared.                                 *)
(***************************************************************************)
Layers == 0..MaxLayer

\* The cells drawn: one pair of half-width glyphs, one full-width glyph.
DrawnUnits ==
    {from_double_half_char("a", "b", "White"), from_single_full_char("A", "Red")}

\* Positions given to Canvas::draw_unit; the last one is outside the grid.
DrawPositions ==
    {Pair(0, 0), Pair(CANVAS_WIDTH - 1, CANVAS_HEIGHT - 1), Pair(CANVAS_WIDTH, 0)}

\* Positions given to UiCanvas::draw_unit; the last one is outside the grid.
UiPositions == {Pair(0, 0), Pair(0, CANVAS_HEIGHT)}

\* References and world positions given to WorldCanvas::draw_unit.  With
\* the first reference the world positions project onto (0, 0), onto the
\* last slot of the grid and beyond the right edge; with the second the
\* subtraction overflows isize.
WorldDraws ==
    LET r1 == Reference_new(Pair(0, 0), Pair(-1, 5))
        r2 == Reference_new(Pair(ISIZE_MAX, 0), Pair(ISIZE_MIN, 0))
    IN  {[reference |-> r1, world_position |-> Pair(-1, 5)],
         [reference |-> r1,
          world_position |-> Pair(CANVAS_WIDTH - 2, CANVAS_HEIGHT + 4)],
         [reference |-> r1,
          world_position |-> Pair(CANVAS_WIDTH - 1, CANVAS_HEIGHT + 4)],
         [reference |-> r2, world_position |-> Pair(1, 0)]}

NoReference == Reference_new(Pair(0, 0), Pair(0, 0))

\* The record of a call in last_call.  `position` is the position argument
\* (a world position for world_draw_unit); `projection` is what
\* canvas_position_of returned to world_draw_unit.
Call(op, drawable_unit, position, layer, ref, projection) ==
    [op |-> op, drawable_unit |-> drawable_unit, position |-> position,
     layer |-> layer, reference |-> ref, projection |-> projection]

NoCall(op) ==
    Call(op, from_double_half_char(" ", " ", "White"), Pair(0, 0), 0,
         NoReference, Returned(None))

\* The record of a Canvas::draw_unit call in drawn: its arguments and the
\* slot as it was before the call.
Drawn(drawable_unit, position, layer, before) ==
    [drawable_unit |-> drawable_unit, position |-> position, layer |-> layer,
     before |-> before]

\* What a step of the canvas machine leaves alone.
CanvasFrame ==
    UNCHANGED <<overflow_checks, segmenter_vars, projector_vars, buffer_vars,
                line_vars, writer_vars, pager_vars>>

InitCanvasVars ==
    /\ lattices = empty_canvas
    /\ panicked = FALSE
    /\ drawn = <<>>
    /\ last_call = NoCall("empty_canvas")

\* The effect of self.canvas.draw_unit(drawable_unit, position, layer) on
\* the canvas and on the history of draws.
CanvasDraw(drawable_unit, position, layer) ==
    LET outcome == draw_unit(lattices, drawable_unit, position, layer)
    IN  IF outcome.panic
        THEN /\ panicked' = TRUE
             /\ UNCHANGED <<lattices, drawn>>
        ELSE /\ lattices' = outcome.value
             /\ drawn' = Append(drawn,
                                Drawn(drawable_unit, position, layer,
                                      Lattice(lattices, position)))
             /\ panicked' = FALSE

\* canvas.draw_unit(drawable_unit, position, layer)
DrawUnit(drawable_unit, position, layer) ==
    /\ ~panicked
    /\ Len(drawn) < MaxDraws
    /\ CanvasDraw(drawable_unit, position, layer)
    /\ last_call' = Call("draw_unit", drawable_unit, position, layer,
                         NoReference, Returned(None))
    /\ CanvasFrame

\* UiCanvas::from_canvas(&mut canvas).draw_unit(drawable_unit, ui_position, layer)
UiDrawUnit(drawable_unit, ui_position, layer) ==
    /\ ~panicked
    /\ Len(drawn) < MaxDraws
    /\ LET canvas_position == ui_position
       IN  CanvasDraw(drawable_unit, canvas_position, layer)
    /\ last_call' = Call("ui_draw_unit", drawable_unit, ui_position, layer,
                         NoReference, Returned(None))
    /\ CanvasFrame

\* WorldCanvas::from_canvas(&mut canvas, ref).draw_unit(drawable_unit, world_pos, layer)
WorldDrawUnit(ref, drawable_unit, world_pos, layer) ==
    /\ ~panicked
    /\ Len(drawn) < MaxDraws
    /\ LET projection == canvas_position_of(ref, world_pos, overflow_checks)
       IN  /\ IF projection.panic
              THEN /\ panicked' = TRUE
                   /\ UNCHANGED <<lattices, drawn>>
              ELSE IF IsSome(projection.value)
              THEN CanvasDraw(drawable_unit, projection.value.value, layer)
              ELSE UNCHANGED <<lattices, panicked, drawn>>
           /\ last_call' = Call("world_draw_unit", drawable_unit, world_pos,
                                layer, ref, projection)
    /\ CanvasFrame

\* The record of a clear() call in last_call: the grid it wiped.
ClearCall(before) ==
    [op |-> "clear", drawable_unit |-> NoCall("clear").drawable_unit,
     position |-> Pair(0, 0), layer |-> 0, reference |-> NoReference,
     projection |-> Returned(None), before |-> before]

\* canvas.clear()
Clear ==
    /\ ~panicked
    /\ lattices' = clear(lattices)
    /\ drawn' = <<>>
    /\ last_call' = ClearCall(lattices)
    /\ UNCHANGED panicked
    /\ CanvasFrame


(***************************************************************************)
(* canvas.rs, drawable_unit.rs: write_to                                   *)
(***************************************************************************)
\* A DrawDestination (any fmt::Write) is the text it has received, one
\* entry per write call, and the way it behaves: `accepts` is the number
\* of write calls it still accepts before it fails (Unlimited: it never
\* fails), `keeps_fragment` tells whether a failing write leaves a part of
\* its text in the destination, `attempts` counts the write calls made.
Unlimited == -1

Destination(written, accepts, keeps_fragment, attempts) ==
    [written |-> written, accepts |-> accepts,
     keeps_fragment |-> keeps_fragment, attempts |-> attempts]

\* destination.write_char('\n')
NewLine == [text |-> <<"\n">>, color |-> None]

\* What DrawableUnit::write_to hands to destination.write_fmt: the one or
\* two glyphs of the cell as a string, styled with the colour of the cell.
StyledUnit(drawable_unit) ==
    [text |-> IF IsSome(drawable_unit.right)
              THEN <<drawable_unit.left, drawable_unit.right.value>>
              ELSE <<drawable_unit.left>>,
     color |-> Some(drawable_unit.color)]

\* What a failing write of `write` may leave in the destination.
Fragment(write) == [fragment_of |-> write]

\* Canvas::empty_drawable_unit()
empty_drawable_unit == from_double_half_char(" ", " ", "White")

CANVAS_BOUNDARY_COLOR == "White"

\* The writes of one grid row: left boundary, every slot of the row (the
\* empty cell for None), right boundary, newline.
RowWrites(lat, y) ==
    <<StyledUnit(from_double_half_char(" ", "|", CANVAS_BOUNDARY_COLOR))>>
    \o [i \in 1..CANVAS_WIDTH |->
            LET lattice == Lattice(lat, Pair(i - 1, y))
            IN  StyledUnit(IF IsSome(lattice)
                           THEN lattice.value.drawable_unit
                           ELSE empty_drawable_unit)]
    \o <<StyledUnit(from_double_half_char("|", " ", CANVAS_BOUNDARY_COLOR)),
         NewLine>>

\* The writes of the rows self.lattices[0..n), in the order of the iterator.
RECURSIVE RowsWrites(_, _)
RowsWrites(lat, n) ==
    IF n = 0 THEN <<>> ELSE RowsWrites(lat, n - 1) \o RowWrites(lat, n - 1)

\* The write calls that Canvas::write_to makes on its destination, in
\* order, as long as none of them fails: the top boundary and a newline,
\* the rows, the bottom boundary.  ("~" names the full-width macron of the
\* bottom boundary.)
WriteSequence(lat) ==
    [i \in 1..(CANVAS_WIDTH + 2) |->
        StyledUnit(from_double_half_char("_", "_", CANVAS_BOUNDARY_COLOR))]
    \o <<NewLine>>
    \o RowsWrites(lat, CANVAS_HEIGHT)
    \o [i \in 1..(CANVAS_WIDTH + 2) |->
            StyledUnit(from_single_full_char("~", CANVAS_BOUNDARY_COLOR))]

\* A variant of WriteAll with a slip: the result of each write is dropped
\* instead of returned with `?`, so every write is attempted and Ok is
\* returned.
WriteAllIgnoringErrors(dest, writes) ==
    LET accepted == IF dest.accepts = Unlimited \/ dest.accepts >= Len(writes)
                    THEN Len(writes) ELSE dest.accepts
    IN  [ok |-> TRUE,
         destination |->
             Destination(
                 dest.written \o SubSeq(writes, 1, accepted)
                 \o (IF accepted < Len(writes) /\ dest.keeps_fragment
                     THEN [i \in 1..(Len(writes) - accepted) |->
                              Fragment(writes[accepted + i])]
                     ELSE <<>>),
                 IF dest.accepts = Unlimited THEN Unlimited
                 ELSE dest.accepts - accepted,
                 dest.keeps_fragment,
                 dest.attempts + Len(writes))]

\* The write calls `writes` made in order on dest, each followed by `?`:
\* the writes the destination accepts are appended to it; the first write
\* it refuses returns the error at once (ok = FALSE), after leaving at
\* most a fragment, and no later write is attempted.
WriteAll(dest, writes) ==
    LET accepted == IF dest.accepts = Unlimited \/ dest.accepts >= Len(writes)
                    THEN Len(writes) ELSE dest.accepts
        failed == accepted < Len(writes)
    IN  [ok |-> ~failed,
         destination |->
             Destination(
                 dest.written \o SubSeq(writes, 1, accepted)
                 \o (IF failed /\ dest.keeps_fragment
                     THEN <<Fragment(writes[accepted + 1])>> ELSE <<>>),
                 IF dest.accepts = Unlimited THEN Unlimited
                 ELSE dest.accepts - accepted,
                 dest.keeps_fragment,
                 dest.attempts + accepted + (IF failed THEN 1 ELSE 0))]

\* Canvas::write_to(&self, destination): Ok(()) or Err(DrawError) and the
\* destination after the call.  The canvas is borrowed immutably.
write_to(lat, dest) == WriteAll(dest, WriteSequence(lat))

\* The number of write calls of a complete write_to.
WriteCount == (CANVAS_HEIGHT + 2) * (CANVAS_WIDTH + 2) + CANVAS_HEIGHT + 1

\* The destinations given to write_to: a fresh one and one that holds text
\* already, which never fail, and destinations that refuse their first
\* write, the newline after the top boundary, a write in the middle of the
\* first grid row, and the last write.
Destinations ==
    {Destination(<<>>, Unlimited, FALSE, 0),
     Destination(<<NewLine>>, Unlimited, FALSE, 0)}
    \cup {Destination(<<>>, accepts, FALSE, 0) :
              accepts \in {0, CANVAS_WIDTH + 2, WriteCount - 1}}
    \cup {Destination(<<NewLine>>, accepts, TRUE, 0) :
              accepts \in {CANVAS_WIDTH + 5, WriteCount - 1}}

InitWriterVars ==
    /\ destination = Destination(<<>>, Unlimited, FALSE, 0)
    /\ write_result = None
    /\ write_given = Destination(<<>>, Unlimited, FALSE, 0)

\* let result = canvas.write_to(&mut dest);   once, at the end of a frame
WriteTo(dest) ==
    /\ ~panicked
    /\ ~IsSome(write_result)
    /\ LET outcome == write_to(lattices, dest)
       IN  /\ destination' = outcome.destination
           /\ write_result' = Some(IF outcome.ok THEN "Ok" ELSE "Err")
    /\ write_given' = dest
    /\ UNCHANGED <<lattices, panicked, drawn, last_call>>
    /\ UNCHANGED <<overflow_checks, segmenter_vars, projector_vars, buffer_vars,
                   line_vars, pager_vars>>

(***************************************************************************)
(* message_buffer.rs: MessageLine                                          *)
(***************************************************************************)
MessageLine(line_units, is_growable, capacity) ==
    [units |-> line_units, is_growable |-> is_growable,
     max_message_length |-> capacity]

empty_growable_line(capacity) == MessageLine(<<>>, TRUE, capacity)

empty_ungrowable_line == MessageLine(<<>>, FALSE, 0)

\* A variant of AfterPopFront with a slip: the newest element leaves
\* (pop_back for pop_front).
AfterPopBack(deque) ==
    IF Len(deque) = 0 THEN deque ELSE SubSeq(deque, 1, Len(deque) - 1)

\* VecDeque::pop_front(): None on an empty deque.
pop_front(deque) == IF Len(deque) = 0 THEN None ELSE Some(Head(deque))

\* The deque after pop_front().
AfterPopFront(deque) == IF Len(deque) = 0 THEN deque ELSE Tail(deque)

\* A variant of AppendUnit with a slip: a full line drops its newest cell
\* (pop_back for pop_front).
AppendUnitPopBack(held, capacity, unit) ==
    IF Len(held) = capacity
    THEN IF IsSome(pop_front(held))
         THEN Returned(Append(SubSeq(held, 1, Len(held) - 1), unit))
         ELSE Panic
    ELSE Returned(Append(held, unit))

\* One iteration of the for loop of append_message on the cells `held`:
\* a full line drops its front cell (pop_front().unwrap() panics when there
\* is none), then the cell is pushed at the back.
AppendUnit(held, capacity, unit) ==
    IF Len(held) = capacity
    THEN IF IsSome(pop_front(held))
         THEN Returned(Append(AfterPopFront(held), unit))
         ELSE Panic
    ELSE Returned(Append(held, unit))

\* The loop of append_message over new_units[1..n].
RECURSIVE AppendLoop(_, _, _, _)
AppendLoop(held, capacity, new_units, n) ==
    IF n = 0
    THEN Returned(held)
    ELSE LET sofar == AppendLoop(held, capacity, new_units, n - 1)
         IN  IF sofar.panic
             THEN Panic
             ELSE AppendUnit(sofar.value, capacity, new_units[n])

\* MessageLine::append_message: the line after the call, or a panic.
append_message(line, new_units) ==
    IF ~line.is_growable
    THEN Panic
    ELSE LET held == AppendLoop(line.units, line.max_message_length,
                                new_units, Len(new_units))
         IN  IF held.panic
             THEN Panic
             ELSE Returned([line EXCEPT !.units = held.value])

\* MessageLine::disable_growable: the line after the call, or a panic.
disable_growable(line) ==
    IF ~line.is_growable
    THEN Panic
    ELSE Returned([line EXCEPT !.is_growable = FALSE])

(***************************************************************************)
(* One MessageLine under append_message and disable_growable.              *)
(***************************************************************************)
\* The cells given to append_message: blank cells told apart by their
\* colour, as in test_append_message.
LineUnits ==
    {from_double_half_char(" ", " ", "White"),
     from_double_half_char(" ", " ", "Red")}

\* The slices given to append_message: every slice of up to two cells.
LineSlices == UNION {[1..n -> LineUnits] : n \in 0..2}

InitLineVars ==
    /\ message_line = empty_ungrowable_line
    /\ all_appended = <<>>
    /\ line_panicked = FALSE

\* What a step on the line leaves alone.
LineFrame ==
    UNCHANGED <<overflow_checks, segmenter_vars, projector_vars, canvas_vars,
                buffer_vars, writer_vars, pager_vars>>

\* message_line.append_message(&new_units)
AppendMessage(new_units) ==
    /\ ~line_panicked
    /\ Len(all_appended) + Len(new_units) <= MaxAppended
    /\ LET outcome == append_message(message_line, new_units)
       IN  IF outcome.panic
           THEN /\ line_panicked' = TRUE
                /\ UNCHANGED <<message_line, all_appended>>
           ELSE /\ message_line' = outcome.value
                /\ all_appended' = all_appended \o new_units
                /\ UNCHANGED line_panicked
    /\ LineFrame

\* message_line.disable_growable()
DisableGrowable ==
    /\ ~line_panicked
    /\ LET outcome == disable_growable(message_line)
       IN  IF outcome.panic
           THEN /\ line_panicked' = TRUE
                /\ UNCHANGED message_line
           ELSE /\ message_line' = outcome.value
                /\ UNCHANGED line_panicked
    /\ UNCHANGED all_appended
    /\ LineFrame

(***************************************************************************)
(* message_buffer.rs: MessageBuffer                                        *)
(***************************************************************************)
\* A variant of add_new_message_line with a slip: push_front for push_back.
add_new_message_line_front(deque, limit, new_message_line) ==
    <<new_message_line>>
    \o (IF Len(deque) = limit THEN AfterPopFront(deque) ELSE deque)

\* MessageBuffer::add_new_message_line on the deque `deque` of a buffer
\* with limit `limit`.  (The history line_ids goes through the same
\* operator as lines.)
add_new_message_line(deque, limit, new_message_line) ==
    Append(IF Len(deque) = limit THEN AfterPopFront(deque) ELSE deque,
           new_message_line)

\* self.lines.back_mut()
back(deque) == IF Len(deque) = 0 THEN None ELSE Some(deque[Len(deque)])

\* The texts given to add_text: they segment into 0, 1, 2 and 3 cells.
BufferTexts == {<<>>, <<"a">>, <<"A", "b">>, <<"a", "b", "A", "A">>}

\* The record of a buffer operation in last_op: the operation, the cells
\* add_text was given, and lines before the call.
Op(op, given, before) == [op |-> op, units |-> given, before |-> before]

\* What a step of the message log leaves alone.
BufferFrame ==
    UNCHANGED <<max_line_count, max_message_length, overflow_checks,
                segmenter_vars, projector_vars, canvas_vars,
                line_vars, writer_vars, pager_vars>>

InitBufferVars ==
    /\ lines = <<>>
    /\ max_line_count = 0
    /\ max_message_length = 0
    /\ buffer_panicked = FALSE
    /\ line_ids = <<>>
    /\ created = 0
    /\ last_op = Op("new", <<>>, <<>>)

\* add_text and add_newline create a line exactly when there is no last
\* line or the last line is sealed.
CreatesLine == ~IsSome(back(lines)) \/ ~back(lines).value.is_growable

\* buffer.add_text(text, col)
AddText(text, col) ==
    /\ ~buffer_panicked
    /\ CreatesLine => created < MaxCreated
    /\ LET given == create_units_from(text, col)
           last_line == back(lines)
       IN  /\ IF IsSome(last_line) /\ last_line.value.is_growable
              THEN LET appended == append_message(last_line.value, given)
                   IN  IF appended.panic
                       THEN /\ buffer_panicked' = TRUE
                            /\ UNCHANGED <<lines, line_ids, created>>
                       ELSE /\ lines' = [lines EXCEPT ![Len(lines)] =
                                             appended.value]
                            /\ UNCHANGED <<buffer_panicked, line_ids, created>>
              ELSE LET line == append_message(
                                   empty_growable_line(max_message_length),
                                   given)
                   IN  IF line.panic
                       THEN /\ buffer_panicked' = TRUE
                            /\ UNCHANGED <<lines, line_ids, created>>
                       ELSE /\ lines' = add_new_message_line(
                                            lines, max_line_count, line.value)
                            /\ line_ids' = add_new_message_line(
                                               line_ids, max_line_count,
                                               created + 1)
                            /\ created' = created + 1
                            /\ UNCHANGED buffer_panicked
           /\ last_op' = Op("add_text", given, lines)
    /\ BufferFrame

\* buffer.add_newline()
AddNewline ==
    /\ ~buffer_panicked
    /\ CreatesLine => created < MaxCreated
    /\ LET last_line == back(lines)
       IN  IF IsSome(last_line) /\ last_line.value.is_growable
           THEN LET sealed == disable_growable(last_line.value)
                IN  IF sealed.panic
                    THEN /\ buffer_panicked' = TRUE
                         /\ UNCHANGED <<lines, line_ids, created>>
                    ELSE /\ lines' = [lines EXCEPT ![Len(lines)] = sealed.value]
                         /\ UNCHANGED <<buffer_panicked, line_ids, created>>
           ELSE /\ lines' = add_new_message_line(lines, max_line_count,
                                                 empty_ungrowable_line)
                /\ line_ids' = add_new_message_line(line_ids, max_line_count,
                                                    created + 1)
                /\ created' = created + 1
                /\ UNCHANGED buffer_panicked
    /\ last_op' = Op("add_newline", <<>>, lines)
    /\ BufferFrame

(***************************************************************************)
(* message_buffer.rs: MessageBuffer::draw_message                          *)
(***************************************************************************)
\* geometry::Rectangle::from_corners for a left-top and a right-bottom
\* corner, with the accessors left(), top(), right(), bottom() as fields.
\* Both corners belong to the rectangle: draw_border_and_fill_inner draws
\* the rows top..bottom + 1 and the columns left..right + 1.
Rectangle_from_corners(left_top, right_bottom) ==
    [left |-> left_top.x, top |-> left_top.y,
     right |-> right_bottom.x, bottom |-> right_bottom.y]

\* geometry::Rectangle::width().  The geometry crate is not part of this
\* repository and draw_message does not tell how width() measures a
\* rectangle whose corners both belong to it: the number of its columns
\* (counts_cells) or the distance right - left.  The model leaves the
\* choice open.
Rectangle_width(rectangle, counts_cells) ==
    IF counts_cells
    THEN rectangle.right - rectangle.left + 1
    ELSE rectangle.right - rectangle.left

\* div_ceil(x, y): x / y panics when y is 0.
div_ceil(x, y) ==
    IF y = 0
    THEN Panic
    ELSE Returned((x \div y) + (IF x % y = 0 THEN 0 ELSE 1))

\* std::cmp::max
max(a, b) == IF a >= b THEN a ELSE b

\* `v as usize` for an isize v: the value modulo 2^WordBits.
AsUsize(v) == v % (USIZE_MAX + 1)

\* A call ui_canvas.draw_unit(drawable_unit, position, layer) made by
\* draw_message.  History: `line` is the index in self.lines of the line
\* the cell belongs to and `cell` the number of the cell in its line, from
\* 0 (line = 0 for the border and the fill).
DrawCall(drawable_unit, position, line, cell) ==
    [drawable_unit |-> drawable_unit, position |-> position,
     line |-> line, cell |-> cell]

\* The calls of draw_border_and_fill_inner, row by row, column by column.
BorderAndFillCalls(region_on_canvas, border) ==
    LET top == region_on_canvas.top
        bottom == region_on_canvas.bottom
        left == region_on_canvas.left
        right == region_on_canvas.right
        row_count == max(bottom + 1 - top, 0)
        column_count == max(right + 1 - left, 0)
    IN  [k \in 1..(row_count * column_count) |->
            LET row == top + ((k - 1) \div column_count)
                column == left + ((k - 1) % column_count)
                is_horizontal_border == row = top \/ row = bottom
                is_vertical_border == column = left \/ column = right
                is_border == is_horizontal_border \/ is_vertical_border
            IN  DrawCall(IF is_border
                         THEN border
                         ELSE from_double_half_char(" ", " ", "White"),
                         Pair(column, row), 0, 0)]

\* The region inside the border (lines 168-174).  The regions of the model
\* have bottom >= 1 and right >= 1, so the usize subtractions stay in range.
InteriorOf(region_on_canvas) ==
    Rectangle_from_corners(
        Pair(region_on_canvas.left + 1, region_on_canvas.top + 1),
        Pair(region_on_canvas.right - 1, region_on_canvas.bottom - 1))

\* A variant of Chunks with a slip: the sequence is not split.
ChunksUnsplit(seq, n) == IF Len(seq) = 0 THEN <<>> ELSE <<seq>>

\* itertools chunks(n) on a sequence: consecutive pieces of n elements,
\* the last one shorter when the length is not a multiple of n.
RECURSIVE Chunks(_, _)
Chunks(seq, n) ==
    IF Len(seq) = 0
    THEN <<>>
    ELSE IF Len(seq) <= n
    THEN <<seq>>
    ELSE <<SubSeq(seq, 1, n)>> \o Chunks(SubSeq(seq, n + 1, Len(seq)), n)

\* max(div_ceil(line.len(), region_on_canvas.width()), 1)
required_line_count(length, width) ==
    LET quotient == div_ceil(length, width)
    IN  IF quotient.panic THEN Panic ELSE Returned(max(quotient.value, 1))

\* A variant of VisibleRow with a slip: the filter is missing.
VisibleRowAlways(row_on_canvas, top) == TRUE

\* The filter of line 197: the rows of a line that are drawn.
VisibleRow(row_on_canvas, top) == row_on_canvas >= top

\* A variant of LineOutOfView with a slip: the loop stops at a line whose
\* first row is above the interior, though its last row is inside.
LineOutOfViewByStart(start_row, required, top) == start_row < top

\* The first break (lines 185-190): the last row of the line is above the
\* interior.
LineOutOfView(start_row, required, top) ==
    LET end_row == start_row + required - 1
    IN  end_row < top

\* A variant of NextEndRow with a slip: the next line ends one row above
\* the end of this line, whatever rows this line takes.
NextEndRowOneUp(current_end_row, required) == current_end_row - 1

\* current_end_row -= required_line_count   (line 214)
NextEndRow(current_end_row, required) == current_end_row - required

\* The calls for the chunks[1..c] of one line (lines 191-208).  The chunks
\* hold the numbers of the cells, from 1; chunk number c, from 1, has
\* enumerate() index c - 1.
RECURSIVE ChunkCalls(_, _, _, _, _, _)
ChunkCalls(line, k, chunks, c, start_row, interior) ==
    IF c = 0
    THEN <<>>
    ELSE LET row_on_canvas == start_row + (c - 1)
         IN  ChunkCalls(line, k, chunks, c - 1, start_row, interior)
             \o (IF VisibleRow(row_on_canvas, interior.top)
                 THEN [j \in 1..Len(chunks[c]) |->
                          LET column_on_canvas == (j - 1) + interior.left
                          IN  DrawCall(line.units[chunks[c][j]],
                                       Pair(column_on_canvas,
                                            AsUsize(row_on_canvas)),
                                       k, chunks[c][j] - 1)]
                 ELSE <<>>)

\* The record of a line the loop laid out: its index in self.lines, the
\* row of its first wrapped row and the rows it takes.
Laid(k, start_row, required) ==
    [line |-> k, start_row |-> start_row, required_line_count |-> required]

\* The loop over self.lines.iter().rev() from the line lines[k] on, with
\* current_end_row as it is before that line: the calls it makes and the
\* lines it lays out, or a panic.
RECURSIVE MessageLoop(_, _, _, _, _)
MessageLoop(message_lines, k, current_end_row, interior, width) ==
    IF k = 0
    THEN Returned([calls |-> <<>>, laid |-> <<>>])
    ELSE LET line == message_lines[k]
             required == required_line_count(Len(line.units), width)
         IN  IF required.panic
             THEN Panic
             ELSE LET start_row == current_end_row - required.value + 1
                      chunks == Chunks([i \in 1..Len(line.units) |-> i], width)
                      here == ChunkCalls(line, k, chunks, Len(chunks),
                                         start_row, interior)
                  IN  IF LineOutOfView(start_row, required.value, interior.top)
                      THEN Returned([calls |-> <<>>, laid |-> <<>>])
                      ELSE IF current_end_row - required.value < 0
                      THEN Returned([calls |-> here,
                                     laid |-> <<Laid(k, start_row,
                                                     required.value)>>])
                      ELSE LET rest == MessageLoop(
                                           message_lines, k - 1,
                                           NextEndRow(current_end_row,
                                                      required.value),
                                           interior, width)
                           IN  IF rest.panic
                               THEN Panic
                               ELSE Returned(
                                        [calls |-> here \o rest.value.calls,
                                         laid |-> <<Laid(k, start_row,
                                                         required.value)>>
                                                  \o rest.value.laid])

\* The calls[1..n] made through UiCanvas::draw_unit on the grid, in order:
\* the grid and the history of draws after them, or the panic of one.
RECURSIVE DrawAll(_, _, _, _, _)
DrawAll(lat, history, calls, n, layer) ==
    IF n = 0
    THEN Returned([lattices |-> lat, drawn |-> history])
    ELSE LET sofar == DrawAll(lat, history, calls, n - 1, layer)
         IN  IF sofar.panic
             THEN Panic
             ELSE LET canvas_position == calls[n].position
                      outcome == draw_unit(sofar.value.lattices,
                                           calls[n].drawable_unit,
                                           canvas_position, layer)
                  IN  IF outcome.panic
                      THEN Panic
                      ELSE Returned(
                               [lattices |-> outcome.value,
                                drawn |-> Append(
                                    sofar.value.drawn,
                                    Drawn(calls[n].drawable_unit,
                                          canvas_position, layer,
                                          Lattice(sofar.value.lattices,
                                                  canvas_position)))])

\* The regions given to draw_message, all inside the canvas:
\*   3 x 5 cells at the left top corner (an interior of 1 x 3 cells),
\*   4 x 4 cells at the left top corner (an interior of 2 x 2 cells),
\*   4 x 3 cells (an interior of 2 x 1 cells),
\*   4 x 5 cells at the right bottom corner (an interior of 2 x 3 cells).
Regions ==
    {Rectangle_from_corners(Pair(0, 0), Pair(2, 4)),
     Rectangle_from_corners(Pair(0, 0), Pair(3, 3)),
     Rectangle_from_corners(Pair(1, 2), Pair(4, 4)),
     Rectangle_from_corners(Pair(CANVAS_WIDTH - 4, CANVAS_HEIGHT - 5),
                            Pair(CANVAS_WIDTH - 1, CANVAS_HEIGHT - 1))}

\* The text given to add_text before draw_message: one cell a call.
PagerTexts == {<<"A">>}

\* The record of a draw_message call in message_call: its arguments, the
\* interior and its width as the call computed them, the calls it made for
\* the cells of the lines, the lines it laid out, whether it panicked, and
\* the number of draw_message calls so far.
MessageCall(op, region, layer, interior, width, calls, laid, panic, count) ==
    [op |-> op, region |-> region, layer |-> layer, interior |-> interior,
     width |-> width, calls |-> calls, laid |-> laid, panic |-> panic,
     count |-> count]

NoMessageCall ==
    MessageCall("none", Rectangle_from_corners(Pair(0, 0), Pair(0, 0)), 0,
                Rectangle_from_corners(Pair(0, 0), Pair(0, 0)), 0,
                <<>>, <<>>, FALSE, 0)

InitPagerVars ==
    /\ border_unit = from_double_half_char("#", "#", "Red")
    /\ width_counts_cells = TRUE
    /\ message_call = NoMessageCall

\* buffer.draw_message(&mut UiCanvas::from_canvas(&mut canvas), region, layer)
DrawMessage(region_on_canvas, layer) ==
    /\ ~panicked
    /\ ~buffer_panicked
    /\ message_call.count < MaxMessageDraws
    /\ LET interior == InteriorOf(region_on_canvas)
           width == Rectangle_width(interior, width_counts_cells)
           loop == MessageLoop(lines, Len(lines), interior.bottom,
                               interior, width)
           calls == BorderAndFillCalls(region_on_canvas, border_unit)
                    \o (IF loop.panic THEN <<>> ELSE loop.value.calls)
           outcome == IF loop.panic
                      THEN Panic
                      ELSE DrawAll(lattices, drawn, calls, Len(calls), layer)
       IN  /\ IF outcome.panic
              THEN /\ panicked' = TRUE
                   /\ UNCHANGED <<lattices, drawn>>
              ELSE /\ lattices' = outcome.value.lattices
                   /\ drawn' = outcome.value.drawn
                   /\ UNCHANGED panicked
           /\ message_call' =
                  MessageCall("draw_message", region_on_canvas, layer,
                              interior, width,
                              IF loop.panic THEN <<>> ELSE loop.value.calls,
                              IF loop.panic THEN <<>> ELSE loop.value.laid,
                              outcome.panic, message_call.count + 1)
    /\ last_call' = NoCall("draw_message")
    /\ UNCHANGED <<border_unit, width_counts_cells>>
    /\ UNCHANGED <<overflow_checks, segmenter_vars, projector_vars, buffer_vars,
                   line_vars, writer_vars>>

(***************************************************************************)
(* The state machines.                                                     *)
(***************************************************************************)
\* The canvas: Canvas::empty_canvas() in either build profile.
Init ==
    /\ InitCanvasVars
    /\ overflow_checks \in BOOLEAN
    /\ InitSegmenterVars /\ InitProjectorVars /\ InitBufferVars
    /\ InitLineVars /\ InitWriterVars /\ InitPagerVars

Next ==
    \/ \E u \in DrawnUnits, p \in DrawPositions, l \in Layers :
           DrawUnit(u, p, l)
    \/ \E u \in DrawnUnits, p \in UiPositions, l \in Layers :
           UiDrawUnit(u, p, l)
    \/ \E w \in WorldDraws, u \in DrawnUnits, l \in Layers :
           WorldDrawUnit(w.reference, u, w.world_position, l)
    \/ Clear

Spec == Init /\ [][Next]_vars

\* The segmenter: any text of the model in any colour.
InitSegmenter ==
    /\ s \in Texts
    /\ color \in Colors
    /\ units = None
    /\ overflow_checks = FALSE
    /\ InitProjectorVars /\ InitCanvasVars /\ InitBufferVars
    /\ InitLineVars /\ InitWriterVars /\ InitPagerVars

NextSegmenter == CreateUnits

SpecSegmenter == InitSegmenter /\ [][NextSegmenter]_vars

\* The projector: any Reference and world position over the samples, in
\* either build profile.
InitProjector ==
    /\ reference \in {Reference_new(Pair(cx, cy), Pair(wx, wy)) :
                          cx \in CanvasSamples, cy \in CanvasSamples,
                          wx \in AnchorWorldSamples, wy \in AnchorWorldSamples}
    /\ world_position \in {Pair(px, py) : px \in WorldSamples, py \in WorldSamples}
    /\ projected = None
    /\ overflow_checks \in BOOLEAN
    /\ InitSegmenterVars /\ InitCanvasVars /\ InitBufferVars
    /\ InitLineVars /\ InitWriterVars /\ InitPagerVars

NextProjector == Project

SpecProjector == InitProjector /\ [][NextProjector]_vars

\* The message log: MessageBuffer::new with any limits up to the bounds.
InitMessageBuffer ==
    /\ lines = <<>>
    /\ max_line_count \in 0..MaxLineCount
    /\ max_message_length \in 0..MaxMessageLength
    /\ buffer_panicked = FALSE
    /\ line_ids = <<>>
    /\ created = 0
    /\ last_op = Op("new", <<>>, <<>>)
    /\ overflow_checks = FALSE
    /\ InitSegmenterVars /\ InitProjectorVars /\ InitCanvasVars
    /\ InitLineVars /\ InitWriterVars /\ InitPagerVars

NextMessageBuffer ==
    \/ \E text \in BufferTexts : AddText(text, "White")
    \/ AddNewline

SpecMessageBuffer == InitMessageBuffer /\ [][NextMessageBuffer]_vars

\* One MessageLine: MessageLine::empty_growable_line with any capacity up
\* to the bound.
InitMessageLine ==
    /\ message_line \in {empty_growable_line(capacity) :
                             capacity \in 0..MaxMessageLength}
    /\ all_appended = <<>>
    /\ line_panicked = FALSE
    /\ overflow_checks = FALSE
    /\ InitSegmenterVars /\ InitProjectorVars /\ InitCanvasVars
    /\ InitBufferVars /\ InitWriterVars /\ InitPagerVars

NextMessageLine ==
    \/ \E new_units \in LineSlices : AppendMessage(new_units)
    \/ DisableGrowable

SpecMessageLine == InitMessageLine /\ [][NextMessageLine]_vars

\* A frame: an empty canvas is drawn on and cleared, then written once to
\* a destination.
WrittenPositions == {Pair(0, 0), Pair(CANVAS_WIDTH - 1, CANVAS_HEIGHT - 1)}

NextWriteTo ==
    \/ /\ ~IsSome(write_result)
       /\ \E p \in WrittenPositions, l \in {0, MaxLayer} :
              DrawUnit(from_single_full_char("A", "Red"), p, l)
    \/ ~IsSome(write_result) /\ Clear
    \/ \E dest \in Destinations : WriteTo(dest)

SpecWriteTo == Init /\ [][NextWriteTo]_vars

\* The message log drawn on an empty canvas: MessageBuffer::new with any
\* limits up to the bounds, filled by add_text and add_newline and then
\* drawn by draw_message, under either reading of Rectangle::width.
InitDrawMessage ==
    /\ lines = <<>>
    /\ max_line_count \in 0..MaxLineCount
    /\ max_message_length \in 0..MaxMessageLength
    /\ buffer_panicked = FALSE
    /\ line_ids = <<>>
    /\ created = 0
    /\ last_op = Op("new", <<>>, <<>>)
    /\ border_unit = from_double_half_char("#", "#", "Red")
    /\ width_counts_cells \in BOOLEAN
    /\ message_call = NoMessageCall
    /\ overflow_checks = FALSE
    /\ InitSegmenterVars /\ InitProjectorVars /\ InitCanvasVars
    /\ InitLineVars /\ InitWriterVars

NextDrawMessage ==
    \/ /\ message_call.count = 0
       /\ \E text \in PagerTexts : AddText(text, "White")
    \/ message_call.count = 0 /\ AddNewline
    \/ /\ message_call.count = 0
       /\ \E region \in Regions : DrawMessage(region, MaxLayer)

SpecDrawMessage == InitDrawMessage /\ [][NextDrawMessage]_vars

\* The message window on a canvas that is drawn on before: one cell on the
\* canvas, then the log, then draw_message, and draw_message again with
\* the same region and layer.  Both regions have (0, 0) on their boundary
\* and (1, 1) in their interior.
WindowRegions ==
    {Rectangle_from_corners(Pair(0, 0), Pair(2, 4)),
     Rectangle_from_corners(Pair(0, 0), Pair(3, 3))}

WindowPositions == {Pair(0, 0), Pair(1, 1)}

\* MessageBuffer::new with the largest limits of the model, on an empty
\* canvas.
InitMessageWindow ==
    /\ lines = <<>>
    /\ max_line_count = MaxLineCount
    /\ max_message_length = MaxMessageLength
    /\ buffer_panicked = FALSE
    /\ line_ids = <<>>
    /\ created = 0
    /\ last_op = Op("new", <<>>, <<>>)
    /\ border_unit = from_double_half_char("#", "#", "Red")
    /\ width_counts_cells \in BOOLEAN
    /\ message_call = NoMessageCall
    /\ overflow_checks = FALSE
    /\ InitSegmenterVars /\ InitProjectorVars /\ InitCanvasVars
    /\ InitLineVars /\ InitWriterVars

NextMessageWindow ==
    \/ /\ drawn = <<>> /\ last_op.op = "new"
       /\ \E p \in WindowPositions, l \in {0, MaxLayer} :
              UiDrawUnit(from_single_full_char("A", "Red"), p, l)
    \/ /\ message_call.count = 0
       /\ \E text \in PagerTexts : AddText(text, "White")
    \/ message_call.count = 0 /\ AddNewline
    \/ /\ message_call.count = 0
       /\ \E region \in WindowRegions, l \in {0, MaxLayer} :
              DrawMessage(region, l)
    \/ /\ message_call.count > 0
       /\ DrawMessage(message_call.region, message_call.layer)

SpecMessageWindow == InitMessageWindow /\ [][NextMessageWindow]_vars

(***************************************************************************)
(* Properties of the segmenter (SpecSegmenter).                            *)
(***************************************************************************)
\* The number of consecutive half-width characters of text that end at
\* index i (0 when text[i] is full-width).
RECURSIVE RunLength(_, _)
RunLength(text, i) ==
    IF i = 0 \/ Width(text[i]) = 2 THEN 0 ELSE 1 + RunLength(text, i - 1)

\* A padding space belongs after text[i]: text[i] is an unpaired half-width
\* character (odd place in its run) followed by a full-width character or
\* by the end of the text.
PadAfter(text, i) ==
    /\ Width(text[i]) = 1
    /\ RunLength(text, i) % 2 = 1
    /\ (i = Len(text) \/ Width(text[i + 1]) = 2)

\* The glyphs expected for text[1..i]: the characters in order, each
\* flagged pad = FALSE, with a space flagged pad = TRUE where one belongs.
RECURSIVE Padded(_, _)
Padded(text, i) ==
    IF i = 0
    THEN <<>>
    ELSE Padded(text, i - 1)
         \o <<[glyph |-> text[i], pad |-> FALSE]>>
         \o (IF PadAfter(text, i) THEN <<[glyph |-> " ", pad |-> TRUE]>> ELSE <<>>)

\* The glyphs of the cells cells[1..k] read in order, each with its side in
\* its cell ("full", "left" or "right").
RECURSIVE CellGlyphs(_, _)
CellGlyphs(cells, k) ==
    IF k = 0
    THEN <<>>
    ELSE CellGlyphs(cells, k - 1)
         \o (IF IsSome(cells[k].right)
             THEN <<[glyph |-> cells[k].left, side |-> "left"],
                    [glyph |-> cells[k].right.value, side |-> "right"]>>
             ELSE <<[glyph |-> cells[k].left, side |-> "full"]>>)

\* A cell is one full-width glyph or exactly two half-width glyphs.
SquareCell(cell) ==
    IF IsSome(cell.right)
    THEN Width(cell.left) = 1 /\ Width(cell.right.value) = 1
    ELSE Width(cell.left) = 2

\* C9: the cells returned by create_units_from are each one full-width
\* glyph or two half-width glyphs; their glyphs read in order are the
\* characters of the text in order plus padding spaces; a padding space
\* stands only on the right of a cell, after a half-width character that
\* the text follows by a full-width character or by its end; consecutive
\* half-width characters are paired left to right.
C9_SegmenterPairsAndPads ==
    IsSome(units) =>
        LET got == CellGlyphs(units.value, Len(units.value))
            want == Padded(s, Len(s))
        IN  /\ \A k \in 1..Len(units.value) : SquareCell(units.value[k])
            /\ Len(got) = Len(want)
            /\ \A i \in 1..Len(got) :
                   /\ got[i].glyph = want[i].glyph
                   /\ want[i].pad => got[i].side = "right"
                   /\ (got[i].side = "right" /\ ~want[i].pad) =>
                          (i > 1 /\ ~want[i - 1].pad /\ got[i - 1].side = "left")

\* C9, witness: a text with a half-width character before a full-width one
\* and a pair of half-width characters after it has been segmented.
C9_Witness ==
    /\ IsSome(units)
    /\ s = <<"a", "A", "b", " ">>
    /\ units.value = <<from_double_half_char("a", " ", color),
                       from_single_full_char("A", color),
                       from_double_half_char("b", " ", color)>>

\* The number of half-width characters among text[1..i].
RECURSIVE HalfCount(_, _)
HalfCount(text, i) ==
    IF i = 0
    THEN 0
    ELSE HalfCount(text, i - 1) + (IF Width(text[i]) = 1 THEN 1 ELSE 0)

\* The last cell pairs the last character of the text with a space: that
\* space is padding, not a character of the text.
EndsWithPadding ==
    /\ Len(s) > 0
    /\ Len(units.value) > 0
    /\ units.value[Len(units.value)] =
           from_double_half_char(s[Len(s)], " ", color)

\* C10 as claimed: a text with an odd total number of half-width characters
\* ends, segmented, with a cell whose right glyph is a padding space.
C10_OddHalfCountEndsWithPadding ==
    (IsSome(units) /\ HalfCount(s, Len(s)) % 2 = 1) => EndsWithPadding

\* C10 as amended: a text whose last maximal run of half-width characters
\* has odd length ends, segmented, with a cell whose right glyph is a
\* padding space.
C10_OddLastRunEndsWithPadding ==
    (IsSome(units) /\ RunLength(s, Len(s)) % 2 = 1) => EndsWithPadding

\* C10, witness: "aAb" has an even number of half-width characters and an
\* odd last run, and its last cell is padded.
C10_Witness ==
    /\ IsSome(units)
    /\ s = <<"a", "A", "b">>
    /\ HalfCount(s, Len(s)) % 2 = 0
    /\ RunLength(s, Len(s)) % 2 = 1
    /\ EndsWithPadding

(***************************************************************************)
(* Properties of the projector (SpecProjector).                            *)
(***************************************************************************)
Abs(v) == IF v < 0 THEN -v ELSE v

\* The exact offset p - w and the exact candidate c + (p - w), over the
\* integers.
ExactOffset(ref, world_pos) ==
    Pair(world_pos.x - ref.reference_world_position.x,
         world_pos.y - ref.reference_world_position.y)

ExactCandidate(ref, world_pos) ==
    Pair(ref.reference_canvas_position.x + ExactOffset(ref, world_pos).x,
         ref.reference_canvas_position.y + ExactOffset(ref, world_pos).y)

InCanvas(position) ==
    /\ 0 <= position.x /\ position.x < CANVAS_WIDTH
    /\ 0 <= position.y /\ position.y < CANVAS_HEIGHT

InIsize(position) ==
    /\ ISIZE_MIN <= position.x /\ position.x <= ISIZE_MAX
    /\ ISIZE_MIN <= position.y /\ position.y <= ISIZE_MAX

\* C6: projecting p returns Some(c + (p - w)) exactly when c + (p - w) lies
\* in [0,W) x [0,H), and None otherwise.
C6_ProjectionIsTranslation ==
    IsSome(projected) =>
        projected.value =
            IF InCanvas(ExactCandidate(reference, world_position))
            THEN Returned(Some(ExactCandidate(reference, world_position)))
            ELSE Returned(None)

\* C6 on the inputs where nothing leaves isize: the anchor, the offset and
\* the candidate are all representable.
C6_TranslationWithinIsize ==
    (/\ IsSome(projected)
     /\ InIsize(reference.reference_canvas_position)
     /\ InIsize(ExactOffset(reference, world_position))
     /\ InIsize(ExactCandidate(reference, world_position)))
        => C6_ProjectionIsTranslation

\* The offset exceeds the canvas size in magnitude in some component.
OffsetBeyondCanvas ==
    \/ Abs(ExactOffset(reference, world_position).x) > CANVAS_WIDTH
    \/ Abs(ExactOffset(reference, world_position).y) > CANVAS_HEIGHT

\* Neither the subtraction nor the addition of canvas_position_of leaves
\* isize.
ArithmeticWithinIsize ==
    /\ InIsize(ExactOffset(reference, world_position))
    /\ InIsize(reference.reference_canvas_position)
           => InIsize(ExactCandidate(reference, world_position))

DrawsAt(position) ==
    LET At(d) == d.position = position IN SelectSeq(drawn, At)

DrawnPositions == {drawn[i].position : i \in 1..Len(drawn)}

\* The slot a draw leaves behind, by the rule of C1: an empty slot takes
\* (cell, layer), a slot of layer l takes it iff layer >= l.
SlotAfter(d) ==
    IF ~IsSome(d.before) \/ d.layer >= d.before.value.layer
    THEN Some(CanvasUnit(d.drawable_unit, d.layer))
    ELSE d.before

\* The first half of C1: every draw follows the rule, and the slot stays
\* as a draw left it until the next draw at its position.
DrawRule ==
    \A position \in DrawnPositions :
        LET ds == DrawsAt(position)
        IN  /\ Lattice(lattices, position) = SlotAfter(ds[Len(ds)])
            /\ \A i \in 1..(Len(ds) - 1) : ds[i + 1].before = SlotAfter(ds[i])

\* C1 as claimed: every draw follows the rule, and after any two
\* consecutive draws at a slot, with layers l1 then l2, the slot holds the
\* second draw's cell (what the second draw drew, at its layer) iff
\* l2 >= l1.
C1_SecondDrawWinsIffNotLower ==
    /\ DrawRule
    /\ \A position \in DrawnPositions :
           LET ds == DrawsAt(position)
               n == Len(ds)
           IN  n >= 2 =>
                   ((Lattice(lattices, position) =
                         Some(CanvasUnit(ds[n].drawable_unit, ds[n].layer)))
                    <=> ds[n].layer >= ds[n - 1].layer)

\* C1 as amended: every draw follows the rule, and after two consecutive
\* draws at a slot, (cell1, l1) then (cell2, l2), the first of which took
\* effect (the slot was empty or held a layer <= l1), the slot is
\* (cell2, l2) iff l2 >= l1 and is (cell1, l1) otherwise.
C1_SecondDrawWinsOverEffectiveFirst ==
    /\ DrawRule
    /\ \A position \in DrawnPositions :
           LET ds == DrawsAt(position)
               n == Len(ds)
           IN  (/\ n >= 2
                /\ (~IsSome(ds[n - 1].before)
                    \/ ds[n - 1].layer >= ds[n - 1].before.value.layer))
                   => /\ (Lattice(lattices, position) =
                              Some(CanvasUnit(ds[n].drawable_unit, ds[n].layer)))
                          <=> ds[n].layer >= ds[n - 1].layer
                      /\ ds[n].layer < ds[n - 1].layer =>
                             Lattice(lattices, position) =
                                 Some(CanvasUnit(ds[n - 1].drawable_unit,
                                                 ds[n - 1].layer))

\* C1, witness: two draws of different cells at the same layer on an empty
\* slot; the slot holds the second.
C1_Witness ==
    \E position \in DrawnPositions :
        LET ds == DrawsAt(position)
        IN  /\ Len(ds) = 2
            /\ ~IsSome(ds[1].before)
            /\ ds[2].layer = ds[1].layer
            /\ ds[2].drawable_unit # ds[1].drawable_unit
            /\ Lattice(lattices, position) =
                   Some(CanvasUnit(ds[2].drawable_unit, ds[2].layer))

\* The largest layer among the draws ds.
MaxLayerOf(ds) ==
    CHOOSE m \in {ds[i].layer : i \in 1..Len(ds)} :
        \A i \in 1..Len(ds) : ds[i].layer <= m

\* The last draw among ds that had the largest layer.
LastOfMaxLayer(ds) ==
    LET m == MaxLayerOf(ds)
        i == CHOOSE j \in 1..Len(ds) :
                 /\ ds[j].layer = m
                 /\ \A k \in (j + 1)..Len(ds) : ds[k].layer < m
    IN  ds[i]

\* The slots hold what the draws since the last clear say: a slot is
\* populated iff something was drawn at it, with the largest layer drawn
\* and the cell of the last draw of that layer.
SlotsHoldTopDraw ==
    /\ DOMAIN lattices = DrawnPositions
    /\ \A position \in DrawnPositions :
           LET top == LastOfMaxLayer(DrawsAt(position))
           IN  lattices[position] = CanvasUnit(top.drawable_unit, top.layer)

\* C2: between two clear() calls the layer of a populated slot never
\* decreases, whatever is drawn; the slot holds the largest layer drawn at
\* its position since the last clear and the cell of the last draw of that
\* layer.
C2_LayerOnlyRises ==
    [][/\ last_call'.op # "clear" =>
              \A position \in DOMAIN lattices :
                  /\ position \in DOMAIN lattices'
                  /\ lattices'[position].layer >= lattices[position].layer
       /\ SlotsHoldTopDraw']_vars

\* C2, witness: three draws at one slot, two cells at the top layer and
\* then a lower layer; the slot holds the second cell at the top layer.
C2_Witness ==
    \E position \in DrawnPositions :
        LET ds == DrawsAt(position)
        IN  /\ Len(ds) = 3
            /\ ds[1].layer = ds[2].layer
            /\ ds[3].layer < ds[2].layer
            /\ ds[1].drawable_unit # ds[2].drawable_unit
            /\ lattices[position] = CanvasUnit(ds[2].drawable_unit, ds[2].layer)

\* C8: a WorldCanvas::draw_unit call whose projection is None changes no
\* slot and does not panic; one whose projection is Some(p) does what
\* Canvas::draw_unit(cell, p, layer) does, and p is inside the grid.
C8_WorldDrawIsProjectedDraw ==
    [][(last_call'.op = "world_draw_unit" /\ ~last_call'.projection.panic) =>
           IF IsSome(last_call'.projection.value)
           THEN LET position == last_call'.projection.value.value
                IN  /\ position.x \in Columns /\ position.y \in Rows
                    /\ ~panicked'
                    /\ lattices' =
                           draw_unit(lattices, last_call'.drawable_unit,
                                     position, last_call'.layer).value
           ELSE lattices' = lattices /\ ~panicked']_vars

\* C8, witness: a world draw projected to None on a canvas that holds
\* something; nothing panicked.
C8_Witness ==
    /\ last_call.op = "world_draw_unit"
    /\ ~last_call.projection.panic
    /\ ~IsSome(last_call.projection.value)
    /\ DOMAIN lattices # {}
    /\ ~panicked

(***************************************************************************)
(* Properties of the message log (SpecMessageBuffer).                      *)
(***************************************************************************)
\* C3: the buffer holds at most max_line_count lines and every line at most
\* max_message_length cells, for every pair of limits new accepts.
C3_LinesAndCellsWithinLimits ==
    /\ Len(lines) <= max_line_count
    /\ \A i \in 1..Len(lines) : Len(lines[i].units) <= max_message_length

\* The last operation added a line: it ran to completion on a buffer with
\* no last line or a sealed last line.
AddedLine ==
    /\ last_op.op \in {"add_text", "add_newline"}
    /\ ~buffer_panicked
    /\ (Len(last_op.before) = 0
        \/ ~last_op.before[Len(last_op.before)].is_growable)

\* C4: a line added to a buffer that holds max_line_count lines removes
\* exactly the front line and goes last, the other lines keeping their
\* order; so once more than max_line_count lines have been created the
\* buffer holds the most recent max_line_count of them in creation order.
C4_OldestLineEvictedFirst ==
    /\ (AddedLine /\ Len(last_op.before) = max_line_count) =>
           /\ Len(lines) = max_line_count
           /\ \A i \in 1..(Len(lines) - 1) : lines[i] = last_op.before[i + 1]
    /\ created > max_line_count =>
           line_ids = [i \in 1..max_line_count |->
                          created - max_line_count + i]

\* C4 for the limits of at least one line.
C4_OldestLineEvictedFirstFromOne ==
    max_line_count >= 1 => C4_OldestLineEvictedFirst

\* C5: at most one line is growable, and only the last line can be: every
\* line before the last is sealed.
C5_OnlyLastLineGrowable ==
    \A i \in 1..(Len(lines) - 1) : ~lines[i].is_growable

\* C5, witness: after add_text, add_newline and add_text again the buffer
\* holds a sealed line followed by a growable one.
C5_Witness ==
    /\ Len(lines) >= 2
    /\ lines[Len(lines)].is_growable
    /\ ~lines[Len(lines) - 1].is_growable
    /\ Len(lines[Len(lines) - 1].units) > 0
    /\ last_op.op = "add_text"

(***************************************************************************)
(* Properties of Canvas::write_to (SpecWriteTo).                           *)
(***************************************************************************)
\* The text the write_to call added to its destination.
Output ==
    SubSeq(destination.written, Len(write_given.written) + 1,
           Len(destination.written))

WroteOk == IsSome(write_result) /\ write_result.value = "Ok"

\* A row of the output takes CANVAS_WIDTH + 2 cells and its newline.
RowStride == CANVAS_WIDTH + 3

\* The cell that stands at column c (from 0, the boundaries included) of
\* the output row r (from 0, the boundaries included) of the grid.
ExpectedCell(r, c) ==
    IF r = 0
    THEN StyledUnit(from_double_half_char("_", "_", "White"))
    ELSE IF r = CANVAS_HEIGHT + 1
    THEN StyledUnit(from_single_full_char("~", "White"))
    ELSE IF c = 0
    THEN StyledUnit(from_double_half_char(" ", "|", "White"))
    ELSE IF c = CANVAS_WIDTH + 1
    THEN StyledUnit(from_double_half_char("|", " ", "White"))
    ELSE LET position == Pair(c - 1, r - 1)
         IN  IF position \in DOMAIN lattices
             THEN StyledUnit(lattices[position].drawable_unit)
             ELSE StyledUnit(from_double_half_char(" ", " ", "White"))

\* The output holds the CANVAS_HEIGHT + 2 rows in order, top boundary, grid
\* rows from the top, bottom boundary, each of CANVAS_WIDTH + 2 cells, and
\* every row but the last is followed by exactly one newline.
RowsInOrder(out) ==
    /\ Len(out) >= (CANVAS_HEIGHT + 2) * RowStride - 1
    /\ \A r \in 0..(CANVAS_HEIGHT + 1) :
           /\ \A c \in 0..(CANVAS_WIDTH + 1) :
                  out[r * RowStride + c + 1] = ExpectedCell(r, c)
           /\ r <= CANVAS_HEIGHT => out[r * RowStride + RowStride] = NewLine

\* C11: a successful write_to emits CANVAS_HEIGHT + 2 rows of
\* CANVAS_WIDTH + 2 cells in the order top boundary, grid rows from the
\* top, bottom boundary, and every row, the bottom boundary included, is
\* followed by exactly one newline.
C11_EveryRowEndsWithNewline ==
    WroteOk =>
        /\ RowsInOrder(Output)
        /\ Len(Output) = (CANVAS_HEIGHT + 2) * RowStride
        /\ Output[Len(Output)] = NewLine

\* C11 without the newline after the bottom boundary: the output ends with
\* the last cell of the bottom boundary.
C11_EveryRowButTheLastEndsWithNewline ==
    WroteOk =>
        /\ RowsInOrder(Output)
        /\ Len(Output) = (CANVAS_HEIGHT + 2) * RowStride - 1

\* The cells of the grid rows in `out` (a prefix of the output of a
\* write_to) are blank and stand between the boundary glyphs.
BlankInterior(out) ==
    \A i \in 1..Len(out) :
        LET r == (i - 1) \div RowStride
            c == (i - 1) % RowStride
        IN  (r \in 1..CANVAS_HEIGHT /\ c <= CANVAS_WIDTH + 1) =>
                out[i] = IF c = 0
                         THEN StyledUnit(from_double_half_char(" ", "|", "White"))
                         ELSE IF c = CANVAS_WIDTH + 1
                         THEN StyledUnit(from_double_half_char("|", " ", "White"))
                         ELSE StyledUnit(from_double_half_char(" ", " ", "White"))

\* C12: after clear(), whatever was drawn before, every slot is empty; a
\* write_to that follows renders every cell of the grid rows blank between
\* the boundary glyphs; and a draw_unit that follows takes effect at its
\* position whatever its layer.
C12_ClearEmptiesEverySlot ==
    [][/\ last_call'.op = "clear" => DOMAIN lattices' = {}
       /\ (last_call'.op = "clear" /\ WroteOk') =>
              /\ Len(Output') = WriteCount
              /\ BlankInterior(Output')
       /\ (last_call.op = "clear" /\ last_call'.op = "draw_unit"
           /\ ~panicked') =>
              lattices' = [position \in {last_call'.position} |->
                              CanvasUnit(last_call'.drawable_unit,
                                         last_call'.layer)]]_vars

\* C12, witness: a slot held the highest layer, the canvas was cleared and
\* then written completely.
C12_Witness ==
    /\ last_call.op = "clear"
    /\ \E position \in DOMAIN last_call.before :
           last_call.before[position].layer = MaxLayer
    /\ WroteOk
    /\ DOMAIN lattices = {}

\* The writes of write_given that the destination accepted.
Accepted ==
    IF write_given.accepts = Unlimited \/ write_given.accepts >= WriteCount
    THEN WriteCount
    ELSE write_given.accepts

\* C13: write_to returns Err iff a write to the destination fails; the
\* first failing write is the last write attempted, the output of the
\* writes before it stays in the destination after what the destination
\* held before, followed by nothing but what the failing write left; Ok is
\* returned when no write fails; and no slot of the canvas changes.
C13_FirstFailingWriteAborts ==
    [][(~IsSome(write_result) /\ IsSome(write_result')) =>
           LET writes == WriteSequence(lattices)
               failed == Accepted' < WriteCount
               rest == SubSeq(Output', Accepted' + 1, Len(Output'))
           IN  /\ Len(writes) = WriteCount
               /\ write_result'.value = (IF failed THEN "Err" ELSE "Ok")
               /\ destination'.attempts =
                      write_given'.attempts + Accepted'
                      + (IF failed THEN 1 ELSE 0)
               /\ SubSeq(destination'.written, 1, Len(write_given'.written))
                      = write_given'.written
               /\ Len(Output') >= Accepted'
               /\ SubSeq(Output', 1, Accepted') = SubSeq(writes, 1, Accepted')
               /\ IF failed
                  THEN rest \in {<<>>, <<Fragment(writes[Accepted' + 1])>>}
                  ELSE rest = <<>>
               /\ lattices' = lattices]_vars

\* C13, witness: a destination that held text refused a write in the middle
\* of the first grid row of a canvas with a drawn slot; the writes before
\* it and a fragment of it are in the destination.
C13_Witness ==
    /\ IsSome(write_result) /\ write_result.value = "Err"
    /\ Len(write_given.written) > 0
    /\ Len(Output) = Accepted + 1
    /\ Accepted > CANVAS_WIDTH + 3
    /\ Pair(0, 0) \in DOMAIN lattices

(***************************************************************************)
(* Properties of one MessageLine (SpecMessageLine).                        *)
(***************************************************************************)
\* The last n elements of seq.
LastCells(seq, n) == SubSeq(seq, Len(seq) - n + 1, Len(seq))

Min(a, b) == IF a <= b THEN a ELSE b

\* C16: after any sequence of append_message calls on a growable line of
\* capacity c >= 1 no call has panicked and the line holds exactly the last
\* min(c, n) of the n cells appended, in the order they were appended.
C16_LineHoldsLastCells ==
    message_line.max_message_length >= 1 =>
        /\ message_line.units =
               LastCells(all_appended,
                         Min(message_line.max_message_length,
                             Len(all_appended)))
        /\ message_line.is_growable => ~line_panicked

\* C16, witness: more cells were appended than the line holds, the last of
\* them by a call on a line that was full already.
C16_Witness ==
    /\ message_line.max_message_length >= 1
    /\ message_line.is_growable
    /\ ~line_panicked
    /\ Len(all_appended) >= message_line.max_message_length + 2
    /\ all_appended[1] # all_appended[Len(all_appended)]
    /\ Len(message_line.units) = message_line.max_message_length

(***************************************************************************)
(* Properties of add_text and add_newline (SpecMessageBuffer).             *)
(***************************************************************************)
\* A buffer is full when it holds max_line_count lines or more.
Full(deque) == Len(deque) >= max_line_count

\* The lines after a line is added last to the lines `before`, the oldest
\* line evicted first when the buffer is full.
WithNewLine(before, line) ==
    (IF Full(before) /\ Len(before) > 0 THEN Tail(before) ELSE before)
    \o <<line>>

LastGrowable(deque) == Len(deque) > 0 /\ deque[Len(deque)].is_growable

\* C17: add_text on a buffer whose last line is growable appends the
\* segmented cells to that line (through the ring of the line) and leaves
\* the number of lines and the other lines alone; otherwise it adds one
\* growable line holding the segmented cells last, after evicting the
\* oldest line of a full buffer.  The last line is growable afterwards.
C17_AddTextAppendsOrAddsLine ==
    last_op.op = "add_text" =>
        LET before == last_op.before
            given == last_op.units
        IN  /\ ~buffer_panicked
            /\ IF LastGrowable(before)
               THEN /\ Len(lines) = Len(before)
                    /\ \A i \in 1..(Len(before) - 1) : lines[i] = before[i]
                    /\ LET all == before[Len(before)].units \o given
                       IN  lines[Len(lines)].units =
                               LastCells(all, Min(max_message_length, Len(all)))
               ELSE lines = WithNewLine(
                                before,
                                MessageLine(
                                    LastCells(given, Min(max_message_length,
                                                         Len(given))),
                                    TRUE, max_message_length))
            /\ lines[Len(lines)].is_growable

\* C17 for the buffers whose limits are both at least one.
C17_AddTextWithinPositiveLimits ==
    (max_line_count >= 1 /\ max_message_length >= 1) =>
        C17_AddTextAppendsOrAddsLine

\* C18: add_newline on a buffer whose last line is growable seals that
\* line in place, cells, number of lines and other lines unchanged;
\* otherwise it adds one sealed empty line last, after evicting the oldest
\* line of a full buffer.  The last line is sealed afterwards, and a line
\* is created exactly by the calls that find no growable last line.
C18_AddNewlineSealsOrAddsLine ==
    [][last_op'.op = "add_newline" =>
           /\ ~buffer_panicked'
           /\ IF LastGrowable(lines)
              THEN /\ Len(lines') = Len(lines)
                   /\ \A i \in 1..(Len(lines) - 1) : lines'[i] = lines[i]
                   /\ lines'[Len(lines)].units = lines[Len(lines)].units
                   /\ created' = created
              ELSE /\ lines' = WithNewLine(lines, MessageLine(<<>>, FALSE, 0))
                   /\ created' = created + 1
           /\ ~lines'[Len(lines')].is_growable]_vars

\* C18 for the buffers that hold at least one line.
C18_AddNewlineFromOneLine ==
    [][max_line_count >= 1 =>
           (last_op'.op = "add_newline" =>
               /\ ~buffer_panicked'
               /\ IF LastGrowable(lines)
                  THEN /\ Len(lines') = Len(lines)
                       /\ \A i \in 1..(Len(lines) - 1) : lines'[i] = lines[i]
                       /\ lines'[Len(lines)].units = lines[Len(lines)].units
                       /\ created' = created
                  ELSE /\ lines' = WithNewLine(lines,
                                               MessageLine(<<>>, FALSE, 0))
                       /\ created' = created + 1
               /\ ~lines'[Len(lines')].is_growable)]_vars

(***************************************************************************)
(* Properties of draw_message (SpecDrawMessage).                           *)
(***************************************************************************)
\* The least q with q * w >= n, for w >= 1.
CeilDiv(n, w) == CHOOSE q \in 0..n : q * w >= n /\ (q = 0 \/ (q - 1) * w < n)

\* The rows a line of n cells takes in an interior of width w >= 1.
RowsNeeded(n, w) == IF CeilDiv(n, w) >= 1 THEN CeilDiv(n, w) ELSE 1

\* draw_message was called on an interior of width at least one.
DrewMessage == message_call.op = "draw_message" /\ message_call.width >= 1

\* The calls draw_message made for the cells of the line lines[k].
CallsOfLine(k) ==
    {n \in 1..Len(message_call.calls) : message_call.calls[n].line = k}

\* C14: a line of n cells laid out in an interior of width w >= 1 takes
\* max(1, ceil(n / w)) rows, and its cell number i, when drawn, is drawn
\* at row first_row + floor(i / w) and column interior_left + (i mod w); a
\* line of 12 cells takes 3 rows in an interior of width 5.
C14_LineWrapsAtInteriorWidth ==
    /\ required_line_count(12, 5) = Returned(3)
    /\ DrewMessage =>
           \A m \in 1..Len(message_call.laid) :
               LET this == message_call.laid[m]
                   w == message_call.width
                   n == Len(lines[this.line].units)
               IN  /\ this.required_line_count = RowsNeeded(n, w)
                   /\ \A c \in CallsOfLine(this.line) :
                          LET call == message_call.calls[c]
                          IN  /\ call.cell \in 0..(n - 1)
                              /\ call.drawable_unit =
                                     lines[this.line].units[call.cell + 1]
                              /\ call.position =
                                     Pair(message_call.interior.left
                                              + (call.cell % w),
                                          this.start_row + (call.cell \div w))

\* C14, witness: a line of more cells than the interior is wide was drawn
\* on two rows.
C14_Witness ==
    /\ DrewMessage
    /\ ~message_call.panic
    /\ \E m \in 1..Len(message_call.laid) :
           LET this == message_call.laid[m]
           IN  /\ Len(lines[this.line].units) > message_call.width
               /\ this.required_line_count = 2
               /\ Cardinality({message_call.calls[c].position.y :
                                   c \in CallsOfLine(this.line)}) = 2

\* The rows that all the lines of the buffer take together.
RECURSIVE RowsOfLines(_, _)
RowsOfLines(k, w) ==
    IF k = 0
    THEN 0
    ELSE RowsOfLines(k - 1, w) + RowsNeeded(Len(lines[k].units), w)

InteriorHeight == message_call.interior.bottom - message_call.interior.top + 1

\* C15: on a region inside the canvas whose interior is at least one cell
\* wide, draw_message does not panic and draws the cells of the lines only
\* at positions of the interior, whatever the rows the lines need; the
\* lines it lays out are the most recent ones, so a line that does not fit
\* is older than every line that is drawn.
C15_DrawsOnlyInsideInterior ==
    DrewMessage =>
        /\ ~message_call.panic
        /\ ~panicked
        /\ \A c \in 1..Len(message_call.calls) :
               LET position == message_call.calls[c].position
               IN  /\ position.x >= message_call.interior.left
                   /\ position.x <= message_call.interior.right
                   /\ position.y >= message_call.interior.top
                   /\ position.y <= message_call.interior.bottom
        /\ \A m \in 1..Len(message_call.laid) :
               message_call.laid[m].line = Len(lines) - m + 1
        /\ \A k \in 1..Len(lines) :
               CallsOfLine(k) # {} =>
                   \A j \in k..Len(lines) :
                       Len(lines[j].units) > 0 => CallsOfLine(j) # {}

\* C15, witness: the lines need more rows than the interior has, the
\* oldest line is not drawn and a newer one is.
C15_Witness ==
    /\ DrewMessage
    /\ ~message_call.panic
    /\ RowsOfLines(Len(lines), message_call.width) > InteriorHeight
    /\ Len(lines) >= 2
    /\ Len(lines[1].units) > 0
    /\ CallsOfLine(1) = {}
    /\ CallsOfLine(Len(lines)) # {}

\* The last row of a laid line.
EndRow(this) == this.start_row + this.required_line_count - 1

\* C19: the lines are laid bottom-up from the most recent one: the last
\* row of the most recent line is the bottom row of the interior, the last
\* row of every older line is the row right above the first row of the
\* next newer line, an empty line takes one row, and no cell of a line is
\* drawn on a row of a newer line.
C19_LinesLaidBottomUp ==
    (DrewMessage /\ ~message_call.panic) =>
        /\ Len(lines) > 0 =>
               /\ Len(message_call.laid) > 0
               /\ message_call.laid[1].line = Len(lines)
               /\ EndRow(message_call.laid[1]) = message_call.interior.bottom
        /\ \A m \in 2..Len(message_call.laid) :
               /\ message_call.laid[m].line = message_call.laid[m - 1].line - 1
               /\ EndRow(message_call.laid[m]) =
                      message_call.laid[m - 1].start_row - 1
        /\ \A m \in 1..Len(message_call.laid) :
               Len(lines[message_call.laid[m].line].units) = 0 =>
                   message_call.laid[m].required_line_count = 1
        /\ \A c, d \in 1..Len(message_call.calls) :
               message_call.calls[c].line < message_call.calls[d].line =>
                   message_call.calls[c].position.y
                       < message_call.calls[d].position.y

\* C19, witness: three lines were laid, an empty one between two lines
\* with cells, and both of these were drawn.
C19_Witness ==
    /\ DrewMessage
    /\ ~message_call.panic
    /\ Len(message_call.laid) >= 3
    /\ Len(lines[Len(lines) - 1].units) = 0
    /\ CallsOfLine(Len(lines)) # {}
    /\ CallsOfLine(Len(lines) - 2) # {}

\* The row where the line lines[k] starts when every line takes the rows
\* it needs, from the bottom row of the interior up.
StartRowOf(k) ==
    message_call.interior.bottom
    - (RowsOfLines(Len(lines), message_call.width)
       - RowsOfLines(k - 1, message_call.width))
    + 1

\* The row of cell number i of the line lines[k].
RowOfCell(k, i) == StartRowOf(k) + (i \div message_call.width)

\* C20: every cell of every line whose row lies in the interior is drawn,
\* at that row: the rows of a line that is cut by the top edge are drawn
\* as far as they are inside, and the loop does not stop before a line
\* that has a row inside.
C20_EveryRowInsideIsDrawn ==
    (DrewMessage /\ ~message_call.panic) =>
        \A k \in 1..Len(lines) :
            \A i \in 0..(Len(lines[k].units) - 1) :
                (/\ RowOfCell(k, i) >= message_call.interior.top
                 /\ RowOfCell(k, i) <= message_call.interior.bottom) =>
                    \E c \in CallsOfLine(k) :
                        /\ message_call.calls[c].cell = i
                        /\ message_call.calls[c].position.y = RowOfCell(k, i)
                        /\ Lattice(lattices, message_call.calls[c].position)
                               = Some(CanvasUnit(lines[k].units[i + 1],
                                                 message_call.layer))

\* C20, witness: a line of two rows is cut by the top edge of the
\* interior; its lower row is drawn and its upper row is not.
C20_Witness ==
    /\ DrewMessage
    /\ ~message_call.panic
    /\ \E m \in 1..Len(message_call.laid) :
           LET this == message_call.laid[m]
           IN  /\ this.start_row < message_call.interior.top
               /\ EndRow(this) >= message_call.interior.top
               /\ Cardinality(CallsOfLine(this.line)) = message_call.width
               /\ Len(lines[this.line].units) > message_call.width

(***************************************************************************)
(* Totality of the message log and of the projection.                      *)
(***************************************************************************)
\* C22: add_text (on text of characters of width 1 and 2) and add_newline
\* run to completion in every reachable state and for every max_line_count
\* and max_message_length MessageBuffer::new accepts, 0 included: neither
\* the is_growable assertions nor pop_front().unwrap() fail.
C22_BufferOperationsNeverPanic == ~buffer_panicked

\* C22 on the buffers whose lines hold at least one cell: no call panics.
C22_NoPanicWithPositiveLength ==
    max_message_length > 0 => ~buffer_panicked

\* The is_growable assertions of C22 alone: add_text appends to a line,
\* and add_newline seals a line, only when that line is growable.
C22_AssertionsNeverFail ==
    [][/\ (last_op'.op = "add_text" /\ lines' /= lines
               /\ Len(lines') = Len(lines) /\ line_ids' = line_ids)
           => lines[Len(lines)].is_growable
       /\ (last_op'.op = "add_newline" /\ line_ids' = line_ids
               /\ last_op' /= last_op)
           => lines[Len(lines)].is_growable]_vars

\* C23: for every world position and every Reference over the whole range
\* of their integer types the projection completes and returns None or a
\* position inside the canvas; a value out of range in the subtraction, in
\* the addition of the anchor or in either cast gives None, never a panic
\* and never a wrapped coordinate.
C23_ProjectionNeverFailsNorWraps ==
    IsSome(projected) =>
        /\ ~projected.value.panic
        /\ IsSome(projected.value.value) =>
               InCanvas(projected.value.value.value)
        /\ (\/ ~InIsize(reference.reference_canvas_position)
            \/ ~InIsize(ExactOffset(reference, world_position))
            \/ ~InIsize(ExactCandidate(reference, world_position))
            \/ ExactCandidate(reference, world_position).x < 0
            \/ ExactCandidate(reference, world_position).y < 0)
               => projected.value.value = None

\* C23 where the subtraction and the addition stay in isize: the checked
\* casts alone never fail abruptly and never wrap.
C23_CastsNeverFailNorWrap ==
    (/\ InIsize(ExactOffset(reference, world_position))
     /\ (InIsize(reference.reference_canvas_position)
             => InIsize(ExactCandidate(reference, world_position))))
        => C23_ProjectionNeverFailsNorWraps

(***************************************************************************)
(* Sealed lines of the message log.                                        *)
(***************************************************************************)
\* The index in lines' of the line that has number k in lines, or 0 when
\* the step removed it (line_ids numbers the lines in order of creation).
IndexAfter(k) ==
    IF \E j \in 1..Len(line_ids') : line_ids'[j] = line_ids[k]
    THEN CHOOSE j \in 1..Len(line_ids') : line_ids'[j] = line_ids[k]
    ELSE 0

\* C24: once a line is sealed, its cells never change under later add_text
\* and add_newline calls for as long as the line is in the buffer: a step
\* leaves a sealed line as it is, or evicts it, and it evicts only the
\* front line.
C24_SealedLineOnlyLeavesFromTheFront ==
    [][\A k \in 1..Len(lines) :
           ~lines[k].is_growable =>
               IF IndexAfter(k) = 0
               THEN k = 1
               ELSE lines'[IndexAfter(k)] = lines[k]]_vars

\* C24, witness: a sealed line that holds cells is still the front line,
\* with the same cells, after an add_text that started a new line behind
\* it.
C24_Witness ==
    /\ last_op.op = "add_text"
    /\ Len(last_op.units) > 0
    /\ Len(last_op.before) >= 1
    /\ ~last_op.before[1].is_growable
    /\ Len(last_op.before[1].units) > 0
    /\ Len(lines) = Len(last_op.before) + 1
    /\ lines[1] = last_op.before[1]
    /\ ~buffer_panicked

\* C24, the eviction: a sealed line that holds cells left the buffer from
\* the front when add_newline added a line to a full buffer.
C24_Evicted ==
    /\ last_op.op = "add_newline"
    /\ max_line_count > 0
    /\ Len(last_op.before) = max_line_count
    /\ Len(last_op.before[1].units) > 0
    /\ ~last_op.before[1].is_growable
    /\ Len(lines) = max_line_count
    /\ line_ids[1] > 1

(***************************************************************************)
(* The canvas after draw_message.                                          *)
(***************************************************************************)
\* The positions of a region, and those on its boundary.
PositionsOf(region) ==
    {Pair(x, y) : x \in region.left..region.right,
                  y \in region.top..region.bottom}

OnBoundary(region, position) ==
    \/ position.x = region.left \/ position.x = region.right
    \/ position.y = region.top \/ position.y = region.bottom

\* The draws of the last draw_message call in drawn: it drew every
\* position of the region once for the border and the fill, then the
\* cells of the lines.
FirstDrawOfCall ==
    Len(drawn)
    - (Cardinality(PositionsOf(message_call.region))
       + Len(message_call.calls))
    + 1

BorderAndFillDraws ==
    FirstDrawOfCall
    ..(FirstDrawOfCall + Cardinality(PositionsOf(message_call.region)) - 1)

\* Before the last draw_message call every slot of the region was empty or
\* held a layer not above the layer of the call.
RegionWasNotAbove ==
    \A n \in BorderAndFillDraws :
        \/ ~IsSome(drawn[n].before)
        \/ drawn[n].before.value.layer <= message_call.layer

\* The cells of the lines that lie on `position`, as <<line, cell>>, the
\* cell counted from 0.
CellsOn(position) ==
    IF message_call.width >= 1
    THEN {kc \in UNION {{<<k, i>> : i \in 0..(Len(lines[k].units) - 1)} :
                            k \in 1..Len(lines)} :
              /\ RowOfCell(kc[1], kc[2]) = position.y
              /\ message_call.interior.left + (kc[2] % message_call.width)
                     = position.x}
    ELSE {}

\* The cell the window shows at a position of the region.
ShownAt(position) ==
    IF OnBoundary(message_call.region, position)
    THEN border_unit
    ELSE IF CellsOn(position) /= {}
    THEN LET kc == CHOOSE kc \in CellsOn(position) : TRUE
         IN  lines[kc[1]].units[kc[2] + 1]
    ELSE from_double_half_char(" ", " ", "White")

\* C21: after draw_message(target, region, layer) on a canvas whose slots
\* in the region were empty or held layers <= layer, every position on the
\* boundary of the region holds the border cell, every interior position
\* covered by a visible message cell holds that cell (drawn after the
\* fill, it replaces the blank by the tie rule), and every other interior
\* position holds the blank cell, all at the given layer.
C21_WindowShowsBorderTextAndBlank ==
    (/\ message_call.op = "draw_message"
     /\ ~message_call.panic
     /\ RegionWasNotAbove)
        => \A position \in PositionsOf(message_call.region) :
               Lattice(lattices, position)
                   = Some(CanvasUnit(ShownAt(position), message_call.layer))

\* C21, witness: the slot (1, 1) held a cell of a lower layer; the first
\* draw_message put a message cell there, the border around it and the
\* blank on another interior position.
C21_Witness ==
    /\ message_call.op = "draw_message"
    /\ message_call.count = 1
    /\ ~message_call.panic
    /\ RegionWasNotAbove
    /\ drawn[1].position = Pair(1, 1)
    /\ drawn[1].layer < message_call.layer
    /\ CellsOn(Pair(1, 1)) /= {}
    /\ Lattice(lattices, Pair(1, 1))
           = Some(CanvasUnit(from_single_full_char("A", "White"),
                             message_call.layer))
    /\ \E position \in PositionsOf(message_call.interior) :
           CellsOn(position) = {}

\* C21 without its condition: a slot of the region that held a higher
\* layer keeps its cell.
C21_HigherLayerStays ==
    /\ message_call.op = "draw_message"
    /\ ~message_call.panic
    /\ ~RegionWasNotAbove
    /\ Lattice(lattices, drawn[1].position)
           = Some(CanvasUnit(drawn[1].drawable_unit, drawn[1].layer))

(***************************************************************************)
(* draw_message twice.                                                     *)
(***************************************************************************)
\* A step is a draw_message call that repeats the call before it, with the
\* same region and layer, and completes.
RepeatsDrawMessage ==
    /\ message_call.op = "draw_message"
    /\ ~message_call.panic
    /\ message_call'.op = "draw_message"
    /\ message_call'.count = message_call.count + 1
    /\ message_call'.region = message_call.region
    /\ message_call'.layer = message_call.layer
    /\ ~message_call'.panic

\* C25: draw_message keeps no scroll state and does not modify the
\* MessageBuffer: a second call in a row with the same region and layer
\* leaves the canvas as the first call left it, lays the lines out on the
\* same rows, and every call leaves the lines of the buffer as they were.
C25_SecondDrawMessageChangesNothing ==
    [][/\ RepeatsDrawMessage =>
              /\ lattices' = lattices
              /\ message_call'.calls = message_call.calls
              /\ message_call'.laid = message_call.laid
       /\ message_call'.count /= message_call.count =>
              /\ lines' = lines
              /\ max_line_count' = max_line_count
              /\ max_message_length' = max_message_length]_vars

\* C25, witness: draw_message ran twice on a canvas that held a cell in
\* the region before, and it drew cells of the lines both times.
C25_Witness ==
    /\ message_call.op = "draw_message"
    /\ message_call.count = 2
    /\ ~message_call.panic
    /\ Len(message_call.calls) > 0
    /\ Len(drawn)
           = 1 + 2 * (Cardinality(PositionsOf(message_call.region))
                      + Len(message_call.calls))
    /\ \E position \in PositionsOf(message_call.interior) :
           Lattice(lattices, position)
               = Some(CanvasUnit(from_single_full_char("A", "White"),
                                 message_call.layer))

====
